---- MODULE Spec2Model ----
(***************************************************************************)
(* Model of the todo repositories of my-todo (src/src/repositories/todo.rs) *)
(*                                                                         *)
(*   TodoRepositoryForMemory : a HashMap<i32, Todo> behind one RwLock       *)
(*   TodoRepositoryForDb     : the todos table of a PostgreSQL database     *)
(*                                                                         *)
(* Every repository method is a pure operator from the state it reads to   *)
(* the state it leaves and the value it returns; the actions apply them.   *)
(***************************************************************************)
EXTENDS Integers, Sequences, FiniteSets, TLC

\* Largest number of records the model lets the map hold, and the largest
\* value the model lets the table's id sequence hand out.
MaxTodos == 2

\* The most labels ever inserted
MaxLabels == 3

\* The texts a payload may carry (validated, non-empty).
Texts == {"a", "b"}

\* The names of labels
LabelNames == {"x", "y"}

\* The ids a caller may pass: 0 is never assigned, 1..MaxTodos may be.
Ids == 0 .. MaxTodos

VARIABLES
    store,      \* TodoRepositoryForMemory.store: the map id -> Todo
    mOp,        \* the last call made on the in-memory repository
    mRes,       \* what that call returned
    mPre,       \* the map as it was when that call started
    mPrev,      \* history: what the call before it was (see Summary)
    deleted,    \* history: the ids removed by a successful delete so far
    gone,       \* history: the ids removed by a successful delete since the last create
    table,      \* the rows of the todos table: id -> Todo
    seq,        \* the next value of the table's id sequence
    dOp,        \* the last call made on the relational repository
    dRes,       \* what that call returned
    dPre,       \* the rows as they were when that call started
    dPrev,      \* history: what the call before it was (see Summary)
    status,     \* the status of the last HTTP response
    order,      \* the keys of the map in the order the HashMap iterates them
    inserted,   \* history: the stored ids in the order their creates completed
    alls,       \* history: what the (last two) all() calls since the last write returned
    pc,         \* where each concurrent caller is in its call
    call,       \* the call each concurrent caller is making
    tmp,        \* the local `todo` of a caller's create or update
    ret,        \* the value a caller's call is about to return
    readers,    \* the callers holding a read guard of the RwLock
    writers,    \* the callers holding a write guard of the RwLock
    created,    \* history: the creates that returned, while no delete was called (else -1)
    live,       \* history: ids a create returned, no delete of which was in flight then or called since
    dead,       \* history: ids a delete removed and returned, with no create called since
    see,        \* history: for each caller's find or all, `live` as it was when called, less the ids deletes were called on since
    unsee,      \* history: for each caller's find or all, `dead` as it was when called, emptied when a create is called
    race,       \* history: per caller, whether the row its update read was rewritten since
    labels,     \* the rows of the labels table: id -> Label
    labelSeq,   \* the next value of the labels table's id sequence
    lpc,        \* where each caller of the label repository is in its call
    lcall,      \* the call each of them is making
    lret,       \* the value that call is about to return
    first       \* history: the update that returned Ok while another caller's update of the same id was in progress, until the next call

memVars == <<store, mOp, mRes, mPre, mPrev, deleted, gone>>
dbVars == <<table, seq, dOp, dRes, dPre, dPrev>>
httpVars == <<status>>
ordVars == <<order, inserted, alls>>
lockVars == <<pc, call, tmp, ret, readers, writers>>
seeVars == <<live, dead, see, unsee>>
visVars == <<seeVars, first>>
labelVars == <<labels, labelSeq, lpc, lcall, lret>>
concVars == <<lockVars, created, visVars, race, labelVars>>
seqVars == <<mOp, mRes, mPre, mPrev, deleted, gone>>
vars == <<memVars, dbVars, httpVars, ordVars, concVars>>

\* What a call on one repository leaves alone.
notMem == <<dbVars, httpVars, ordVars, concVars>>
notDb == <<memVars, httpVars, ordVars, concVars>>
notBoth == <<httpVars, ordVars, concVars>>
notOrd == <<dbVars, httpVars, concVars>>
notConc == <<seqVars, dbVars, httpVars, ordVars, race, labelVars>>
notDbConc == <<memVars, httpVars, ordVars, readers, writers, created, visVars,
               dOp, dRes, dPre, dPrev, labelVars>>
notLabel == <<memVars, dbVars, httpVars, ordVars, lockVars, created, visVars, race>>

----------------------------------------------------------------------------
\* Data shapes

\* struct Todo { id, text, completed }
Todo(id, text, completed) == [id |-> id, text |-> text, completed |-> completed]

\* Todo::new(id, text): completed starts false
TodoNew(id, text) == Todo(id, text, FALSE)

\* Option<T>
Some(v) == [some |-> TRUE, val |-> v]
NoneText == [some |-> FALSE, val |-> ""]
NoneBool == [some |-> FALSE, val |-> FALSE]

\* Option::unwrap_or
UnwrapOr(opt, default) == IF opt.some THEN opt.val ELSE default

\* struct CreateTodo { text }
CreateTodo == [text : Texts]

\* struct UpdateTodo { text: Option<String>, completed: Option<bool> }
UpdateTodo ==
    [text : {NoneText} \cup {Some(t) : t \in Texts},
     completed : {NoneBool} \cup {Some(b) : b \in BOOLEAN}]

\* The values a repository call returns (anyhow::Result<..>), in one shape.
NoTodo == Todo(0, "", FALSE)
Ok(todo) == [kind |-> "Ok", id |-> todo.id, todo |-> todo, list |-> <<>>]
OkUnit == [kind |-> "OkUnit", id |-> 0, todo |-> NoTodo, list |-> <<>>]
OkList(l) == [kind |-> "OkList", id |-> 0, todo |-> NoTodo, list |-> l]
\* RepositoryError::NotFound(id)
NotFound(id) == [kind |-> "NotFound", id |-> id, todo |-> NoTodo, list |-> <<>>]
\* RepositoryError::Unexpected(detail)
Unexpected == [kind |-> "Unexpected", id |-> 0, todo |-> NoTodo, list |-> <<>>]
NoRes == [kind |-> "None", id |-> 0, todo |-> NoTodo, list |-> <<>>]

IsOk(res) == res.kind \in {"Ok", "OkUnit", "OkList"}

\* A call: its kind and its arguments.
CreateOp(p) == [kind |-> "create", id |-> 0, text |-> Some(p.text), completed |-> NoneBool]
FindOp(id) == [kind |-> "find", id |-> id, text |-> NoneText, completed |-> NoneBool]
AllOp == [kind |-> "all", id |-> 0, text |-> NoneText, completed |-> NoneBool]
UpdateOp(id, p) == [kind |-> "update", id |-> id, text |-> p.text, completed |-> p.completed]
DeleteOp(id) == [kind |-> "delete", id |-> id, text |-> NoneText, completed |-> NoneBool]
NoOp == [kind |-> "none", id |-> 0, text |-> NoneText, completed |-> NoneBool]

\* struct Label { id, text }, the calls on the label repository and what
\* they return
Label(id, text) == [id |-> id, text |-> text]
NoLabel == Label(0, "")
LabelCall(kind, name, id) == [kind |-> kind, name |-> name, id |-> id]
NoLabelCall == LabelCall("none", "", 0)
LabelRes(kind, label, list) == [kind |-> kind, label |-> label, list |-> list]
NoLabelRes == LabelRes("none", NoLabel, <<>>)

\* What mPrev keeps of a finished call: a create and the id it returned, a
\* delete that succeeded and the id it removed, or just that there was a call.
Summary(op, res) ==
    IF op.kind = "create" THEN [kind |-> "create", id |-> res.id]
    ELSE IF op.kind = "delete" /\ IsOk(res) THEN [kind |-> "delete", id |-> op.id]
    ELSE [kind |-> "other", id |-> 0]

\* HashMap::insert / HashMap::remove
Insert(s, id, todo) == [k \in DOMAIN s \cup {id} |-> IF k = id THEN todo ELSE s[k]]
Remove(s, id) == [k \in DOMAIN s \ {id} |-> s[k]]

\* The sequences that list every value of s once: a HashMap iterates in an
\* order that is not specified, a select without duplicates lists each row once.
Listings(s) ==
    {l \in [1 .. Cardinality(DOMAIN s) -> {s[k] : k \in DOMAIN s}] :
        \A k \in DOMAIN s : \E i \in DOMAIN l : l[i] = s[k]}

\* The records of a returned list, order aside.
Records(l) == {l[i] : i \in DOMAIN l}

----------------------------------------------------------------------------
\* TodoRepositoryForMemory

\* Largest key of a non-empty map.
MaxKey(s) == CHOOSE k \in DOMAIN s : \A j \in DOMAIN s : j <= k

\* create that returns the record without storing it
MemCreate_NoInsert(s, payload) ==
    LET id == Cardinality(DOMAIN s) + 1
    IN  [store |-> s, res |-> Ok(TodoNew(id, payload.text))]

\* create that takes the id after the largest one stored
MemCreate_AfterMaxKey(s, payload) ==
    LET id == IF DOMAIN s = {} THEN 1 ELSE MaxKey(s) + 1
        todo == TodoNew(id, payload.text)
    IN  [store |-> Insert(s, id, todo), res |-> Ok(todo)]

\* create that takes the id len instead of len + 1
MemCreate_FromZero(s, payload) ==
    LET id == Cardinality(DOMAIN s)
        todo == TodoNew(id, payload.text)
    IN  [store |-> Insert(s, id, todo), res |-> Ok(todo)]

\* let id = (store.len() + 1) as i32
NextId(s) == Cardinality(DOMAIN s) + 1

\* create: id = len + 1, insert (replacing whatever that key held), return it
MemCreate(s, payload) ==
    LET id == NextId(s)
        todo == TodoNew(id, payload.text)
    IN  [store |-> Insert(s, id, todo), res |-> Ok(todo)]

\* find: a copy of the record, or NotFound(id)
MemFind(s, id) ==
    IF id \in DOMAIN s THEN Ok(s[id]) ELSE NotFound(id)

\* all: the values of the map, in the map's iteration order
MemAll(s) == {OkList(l) : l \in Listings(s)}

\* update that stores the payload under an absent id instead of failing
MemUpdate_Upsert(s, id, payload) ==
    LET old == IF id \in DOMAIN s THEN s[id] ELSE TodoNew(id, "")
        todo == Todo(id, UnwrapOr(payload.text, old.text),
                     UnwrapOr(payload.completed, old.completed))
    IN  [store |-> Insert(s, id, todo), res |-> Ok(todo)]

\* update that resets completed when the payload omits it
MemUpdate_ResetCompleted(s, id, payload) ==
    IF id \notin DOMAIN s
    THEN [store |-> s, res |-> NotFound(id)]
    ELSE LET todo == Todo(id, UnwrapOr(payload.text, s[id].text),
                          UnwrapOr(payload.completed, FALSE))
         IN  [store |-> Insert(s, id, todo), res |-> Ok(todo)]

\* The Todo update builds from the record it found and the payload.
Merged(old, id, payload) ==
    LET text == UnwrapOr(payload.text, old.text)
        completed == UnwrapOr(payload.completed, old.completed)
    IN  Todo(id, text, completed)

\* update: NotFound(id) if absent, else merge the payload over the record
MemUpdate(s, id, payload) ==
    IF id \notin DOMAIN s
    THEN [store |-> s, res |-> NotFound(id)]
    ELSE LET todo == Merged(s[id], id, payload)
         IN  [store |-> Insert(s, id, todo), res |-> Ok(todo)]

\* delete that reports success and leaves the record in the map
MemDelete_KeepsRecord(s, id) ==
    IF id \in DOMAIN s
    THEN [store |-> s, res |-> OkUnit]
    ELSE [store |-> s, res |-> NotFound(id)]

\* delete that ignores what remove returned
MemDelete_AlwaysOk(s, id) ==
    [store |-> Remove(s, id), res |-> OkUnit]

\* delete: remove the key, NotFound(id) if it was absent
MemDelete(s, id) ==
    IF id \in DOMAIN s
    THEN [store |-> Remove(s, id), res |-> OkUnit]
    ELSE [store |-> s, res |-> NotFound(id)]

\* One finished call on the in-memory repository.
MemStep(op, out) ==
    /\ store' = out.store
    /\ mOp' = op
    /\ mRes' = out.res
    /\ mPre' = store
    /\ mPrev' = Summary(mOp, mRes)
    /\ deleted' = IF op.kind = "delete" /\ IsOk(out.res)
                  THEN deleted \cup {op.id} ELSE deleted
    /\ gone' = IF op.kind = "create" THEN {}
               ELSE IF op.kind = "delete" /\ IsOk(out.res)
               THEN gone \cup {op.id} ELSE gone

\* The calls, on the state of the repository alone.
DoCreate ==
    /\ Cardinality(DOMAIN store) < MaxTodos
    /\ \E p \in CreateTodo : MemStep(CreateOp(p), MemCreate(store, p))

DoFind ==
    \E id \in Ids : MemStep(FindOp(id), [store |-> store, res |-> MemFind(store, id)])

DoAll(r) == MemStep(AllOp, [store |-> store, res |-> r])

DoUpdate ==
    \E id \in Ids, p \in UpdateTodo : MemStep(UpdateOp(id, p), MemUpdate(store, id, p))

DoDelete ==
    \E id \in Ids : MemStep(DeleteOp(id), MemDelete(store, id))

Create == DoCreate /\ UNCHANGED notMem

Find == DoFind /\ UNCHANGED notMem

All == (\E r \in MemAll(store) : DoAll(r)) /\ UNCHANGED notMem

Update == DoUpdate /\ UNCHANGED notMem

Delete == DoDelete /\ UNCHANGED notMem

----------------------------------------------------------------------------
\* TodoRepositoryForMemory with the iteration order of its HashMap kept.
\* The order is the map's own: it does not change while the map is only read,
\* replacing the value of a key or removing a key leaves the other keys in
\* place, and inserting a new key may put the keys in any order.

\* The sequences that list every element of the set S once.
Orders(S) ==
    {o \in [1 .. Cardinality(S) -> S] : \A k \in S : \E i \in DOMAIN o : o[i] = k}

\* The sequence q without the element k.
Without(q, k) == SelectSeq(q, LAMBDA x : x # k)

\* The values of s in the order of the keys q.
InOrder(s, q) == [i \in DOMAIN q |-> s[q[i]]]

\* The latest two of the all() results rs followed by r.
Latest(rs, r) == IF Len(rs) = 2 THEN <<rs[2], r>> ELSE Append(rs, r)

OrdCreate ==
    /\ DoCreate
    /\ IF DOMAIN store' = DOMAIN store
       THEN order' = order
       ELSE order' \in Orders(DOMAIN store')
    /\ inserted' = Append(Without(inserted, mRes'.id), mRes'.id)
    /\ alls' = <<>>
    /\ UNCHANGED notOrd

OrdFind == DoFind /\ UNCHANGED <<ordVars, notOrd>>

\* all: store.values() walks the map in its iteration order
OrdAll ==
    /\ DoAll(OkList(InOrder(store, order)))
    /\ alls' = Latest(alls, InOrder(store, order))
    /\ UNCHANGED <<order, inserted, notOrd>>

OrdUpdate ==
    /\ DoUpdate
    /\ alls' = IF IsOk(mRes') THEN <<>> ELSE alls
    /\ UNCHANGED <<order, inserted, notOrd>>

OrdDelete ==
    /\ DoDelete
    /\ order' = Without(order, mOp'.id)
    /\ inserted' = Without(inserted, mOp'.id)
    /\ alls' = IF IsOk(mRes') THEN <<>> ELSE alls
    /\ UNCHANGED notOrd

----------------------------------------------------------------------------
\* TodoRepositoryForMemory under concurrent callers. A call takes its guard
\* (write_store_ref / read_store_ref), makes its accesses to the map one at a
\* time and gives the guard back when it returns.

\* The callers (request-handling tasks sharing the repository).
Callers == {"c1", "c2"}

\* The calls a caller may make: a create, an update of the text alone or of
\* completed alone, and a find, an all or a delete, on the ids a create may assign.
Calls ==
    {CreateOp([text |-> "a"])} \cup {FindOp(id) : id \in 1 .. MaxTodos} \cup {AllOp}
        \cup {UpdateOp(id, p) : id \in 1 .. MaxTodos,
                                p \in {[text |-> Some("b"), completed |-> NoneBool],
                                       [text |-> NoneText, completed |-> Some(TRUE)]}}
        \cup {DeleteOp(id) : id \in 1 .. MaxTodos}

\* create, update and delete use write_store_ref, find and all read_store_ref.
IsWrite(op) == op.kind \in {"create", "update", "delete"}

\* RwLock::read: granted while no writer holds the lock
CanRead(rs, ws) == ws = {}

\* A write lock that is granted while readers hold the lock.
CanWrite_IgnoresReaders(rs, ws) == ws = {}

\* A write lock that is granted while another writer holds the lock.
CanWrite_IgnoresWriters(rs, ws) == rs = {}

\* RwLock::write: granted while nobody holds the lock
CanWrite(rs, ws) == rs = {} /\ ws = {}

\* The callers whose call is in progress.
InFlight(kinds) == {c \in Callers : pc[c] # "idle" /\ call[c].kind \in kinds}

\* The creates that have not inserted yet.
Pending == {c \in Callers : pc[c] \in {"wait", "held", "mid"} /\ call[c].kind = "create"}

\* The ids of a returned list.
IdsOf(l) == {l[i].id : i \in DOMAIN l}

\* A caller enters a repository method with one of the calls ops.
CallOf(c, ops) ==
    /\ pc[c] = "idle"
    /\ \E op \in ops :
          /\ op.kind = "create" =>
                 Cardinality(DOMAIN store) + Cardinality(Pending) < MaxTodos
          /\ call' = [call EXCEPT ![c] = op]
          /\ created' = IF op.kind = "delete" THEN -1 ELSE created
    /\ pc' = [pc EXCEPT ![c] = "wait"]
    /\ UNCHANGED <<store, tmp, ret, readers, writers, notConc>>

\* A caller enters a repository method.
Call(c) == CallOf(c, Calls)

\* self.store.write().unwrap() / self.store.read().unwrap()
Acquire(c) ==
    /\ pc[c] = "wait"
    /\ IF IsWrite(call[c])
       THEN /\ CanWrite(readers, writers)
            /\ writers' = writers \cup {c}
            /\ UNCHANGED readers
       ELSE /\ CanRead(readers, writers)
            /\ readers' = readers \cup {c}
            /\ UNCHANGED writers
    /\ pc' = [pc EXCEPT ![c] = "held"]
    /\ UNCHANGED <<store, call, tmp, ret, created, notConc>>

\* create: let id = (store.len() + 1) as i32; let todo = Todo::new(id, text)
CreateRead(c) ==
    /\ pc[c] = "held" /\ call[c].kind = "create"
    /\ tmp' = [tmp EXCEPT ![c] = TodoNew(NextId(store), call[c].text.val)]
    /\ pc' = [pc EXCEPT ![c] = "mid"]
    /\ UNCHANGED <<store, call, ret, readers, writers, created, notConc>>

\* An update that drops its write guard once it has read the record.
UpdateGet_DropsGuard(c) ==
    /\ pc[c] = "held" /\ call[c].kind = "update"
    /\ IF call[c].id \in DOMAIN store
       THEN /\ tmp' = [tmp EXCEPT ![c] =
                          Merged(store[call[c].id], call[c].id,
                                 [text |-> call[c].text, completed |-> call[c].completed])]
            /\ pc' = [pc EXCEPT ![c] = "mid"]
            /\ UNCHANGED ret
       ELSE /\ ret' = [ret EXCEPT ![c] = NotFound(call[c].id)]
            /\ pc' = [pc EXCEPT ![c] = "ret"]
            /\ UNCHANGED tmp
    /\ writers' = writers \ {c}
    /\ UNCHANGED <<store, call, readers, created, notConc>>

\* update: store.get(&id), NotFound(id) if absent, else build the merged todo
UpdateGet(c) ==
    /\ pc[c] = "held" /\ call[c].kind = "update"
    /\ IF call[c].id \in DOMAIN store
       THEN /\ tmp' = [tmp EXCEPT ![c] =
                          Merged(store[call[c].id], call[c].id,
                                 [text |-> call[c].text, completed |-> call[c].completed])]
            /\ pc' = [pc EXCEPT ![c] = "mid"]
            /\ UNCHANGED ret
       ELSE /\ ret' = [ret EXCEPT ![c] = NotFound(call[c].id)]
            /\ pc' = [pc EXCEPT ![c] = "ret"]
            /\ UNCHANGED tmp
    /\ UNCHANGED <<store, call, readers, writers, created, notConc>>

\* create, update: store.insert(id, todo.clone()); Ok(todo)
PutTodo(c) ==
    /\ pc[c] = "mid"
    /\ store' = Insert(store, tmp[c].id, tmp[c])
    /\ ret' = [ret EXCEPT ![c] = Ok(tmp[c])]
    /\ pc' = [pc EXCEPT ![c] = "ret"]
    /\ UNCHANGED <<call, tmp, readers, writers, created, notConc>>

\* find: store.get(&id)
FindGet(c) ==
    /\ pc[c] = "held" /\ call[c].kind = "find"
    /\ ret' = [ret EXCEPT ![c] = MemFind(store, call[c].id)]
    /\ pc' = [pc EXCEPT ![c] = "ret"]
    /\ UNCHANGED <<store, call, tmp, readers, writers, created, notConc>>

\* all: store.values()
AllValues(c) ==
    /\ pc[c] = "held" /\ call[c].kind = "all"
    /\ \E r \in MemAll(store) : ret' = [ret EXCEPT ![c] = r]
    /\ pc' = [pc EXCEPT ![c] = "ret"]
    /\ UNCHANGED <<store, call, tmp, readers, writers, created, notConc>>

\* delete: store.remove(&id)
DeleteRemove(c) ==
    /\ pc[c] = "held" /\ call[c].kind = "delete"
    /\ LET out == MemDelete(store, call[c].id)
       IN  /\ store' = out.store
           /\ ret' = [ret EXCEPT ![c] = out.res]
    /\ pc' = [pc EXCEPT ![c] = "ret"]
    /\ UNCHANGED <<call, tmp, readers, writers, created, notConc>>

\* A method that returns with its guard still held.
Return_KeepsGuard(c) ==
    /\ pc[c] = "ret"
    /\ created' = IF call[c].kind = "create" /\ created >= 0 THEN created + 1 ELSE created
    /\ pc' = [pc EXCEPT ![c] = "idle"]
    /\ call' = [call EXCEPT ![c] = NoOp]
    /\ tmp' = [tmp EXCEPT ![c] = NoTodo]
    /\ ret' = [ret EXCEPT ![c] = NoRes]
    /\ UNCHANGED <<store, readers, writers, notConc>>

\* The method returns: its guard is dropped and the caller has the value.
Return(c) ==
    /\ pc[c] = "ret"
    /\ readers' = readers \ {c}
    /\ writers' = writers \ {c}
    /\ created' = IF call[c].kind = "create" /\ created >= 0 THEN created + 1 ELSE created
    /\ pc' = [pc EXCEPT ![c] = "idle"]
    /\ call' = [call EXCEPT ![c] = NoOp]
    /\ tmp' = [tmp EXCEPT ![c] = NoTodo]
    /\ ret' = [ret EXCEPT ![c] = NoRes]
    /\ UNCHANGED <<store, notConc>>

\* What the entry of a call does to the history of what finds and alls must
\* and must not see.
VisCall(c) ==
    LET op == call'[c]
    IN  /\ live' = IF op.kind = "delete" THEN live \ {op.id} ELSE live
        /\ dead' = IF op.kind = "create" THEN {} ELSE dead
        /\ see' = [d \in Callers |->
                      IF d = c THEN (IF op.kind \in {"find", "all"} THEN live ELSE {})
                      ELSE IF op.kind = "delete" THEN see[d] \ {op.id} ELSE see[d]]
        /\ unsee' = [d \in Callers |->
                        IF op.kind = "create" THEN {}
                        ELSE IF d = c
                        THEN (IF op.kind \in {"find", "all"} THEN dead ELSE {})
                        ELSE unsee[d]]
        /\ UNCHANGED first

\* What the return of a call does to it.
VisReturn(c) ==
    /\ live' = IF /\ call[c].kind = "create"
                  /\ \A d \in InFlight({"delete"}) : call[d].id # ret[c].id
               THEN live \cup {ret[c].id} ELSE live
    /\ dead' = IF call[c].kind = "delete" /\ IsOk(ret[c])
               THEN dead \cup {call[c].id} ELSE dead
    /\ see' = [see EXCEPT ![c] = {}]
    /\ unsee' = [unsee EXCEPT ![c] = {}]
    /\ UNCHANGED first

\* What the entry of a call does to the history of overlapping updates.
PairCall(c) == first' = NoOp /\ UNCHANGED seeVars

\* What the return of a call does to it.
PairReturn(c) ==
    /\ first' = IF /\ call[c].kind = "update" /\ IsOk(ret[c])
                   /\ \E d \in InFlight({"update"}) \ {c} : call[d].id = call[c].id
                THEN call[c] ELSE first
    /\ UNCHANGED seeVars

----------------------------------------------------------------------------
\* TodoRepositoryForDb

\* Schema of the todos table (spec section 6): text varchar(100) not null.
TextNotNull == TRUE

\* insert into todos (text, completed) values ($1, false) returning *
\* (fetch_one): the id comes from the table's sequence.
DbCreate(t, nextId, payload) ==
    LET todo == Todo(nextId, payload.text, FALSE)
    IN  [table |-> Insert(t, nextId, todo), seq |-> nextId + 1, res |-> Ok(todo)]

\* select * from todos where id=$1 (fetch_one): no row is
\* sqlx::Error::RowNotFound, mapped to NotFound(id).
DbFind(t, id) ==
    IF id \in DOMAIN t THEN Ok(t[id]) ELSE NotFound(id)

\* The listing of t whose ids descend / ascend.
Descending(t) ==
    CHOOSE l \in Listings(t) : \A i, j \in DOMAIN l : i < j => l[i].id > l[j].id
Ascending(t) ==
    CHOOSE l \in Listings(t) : \A i, j \in DOMAIN l : i < j => l[i].id < l[j].id

\* all that orders by id asc
DbAll_Ascending(t) == OkList(Ascending(t))

\* select * from todos order by id desc (fetch_all)
DbAll(t) == OkList(Descending(t))

\* An update statement that inserts the row when there is none (an upsert).
DbUpdateStmt_Upsert(t, id, text, completed) ==
    IF ~text.some /\ TextNotNull THEN [table |-> t, res |-> Unexpected]
    ELSE LET todo == Todo(id, text.val, completed)
         IN  [table |-> Insert(t, id, todo), res |-> Ok(todo)]

\* update todos set text=$1, completed=$2 where id=$3 returning * (fetch_one).
\* $1 is the payload's Option<String> as it is: None binds NULL, which the
\* not-null column rejects; the statement then fails as a whole and the error,
\* not being RowNotFound, is mapped to Unexpected. No row is RowNotFound,
\* mapped to NotFound(id).
DbUpdateStmt(t, id, text, completed) ==
    IF id \notin DOMAIN t THEN [table |-> t, res |-> NotFound(id)]
    ELSE IF ~text.some /\ TextNotNull THEN [table |-> t, res |-> Unexpected]
    ELSE LET todo == Todo(id, text.val, completed)
         IN  [table |-> Insert(t, id, todo), res |-> Ok(todo)]

\* An update statement that keeps the row's own completed when the payload
\* has none (completed = coalesce($2, completed)).
DbUpdateWrite_Coalesce(t, id, payload, old) ==
    DbUpdateStmt(t, id, payload.text,
                 UnwrapOr(payload.completed,
                          IF id \in DOMAIN t THEN t[id].completed ELSE old.completed))

\* The second half of update: the statement, run on the rows t as they are
\* now, with the completed of the row old that find returned earlier.
DbUpdateWrite(t, id, payload, old) ==
    DbUpdateStmt(t, id, payload.text, UnwrapOr(payload.completed, old.completed))

\* update: find(id)? for the old row, then the update statement with
\* completed = payload.completed.unwrap_or(old_todo.completed).
DbUpdate(t, id, payload) ==
    LET old == DbFind(t, id)
    IN  IF old.kind # "Ok" THEN [table |-> t, res |-> old]
        ELSE DbUpdateWrite(t, id, payload, old.todo)

\* delete from todos where id=$1 (execute): execute reports the number of rows
\* affected and never RowNotFound, so the call is Ok(()) with or without a row.
DbDelete(t, id) ==
    [table |-> Remove(t, id), res |-> OkUnit]

\* One finished call on the relational repository.
DbStep(op, out, nextSeq) ==
    /\ table' = out.table
    /\ seq' = nextSeq
    /\ dOp' = op
    /\ dRes' = out.res
    /\ dPre' = table
    /\ dPrev' = Summary(dOp, dRes)

DbCreateCall ==
    /\ seq <= MaxTodos
    /\ \E p \in CreateTodo :
          LET out == DbCreate(table, seq, p) IN DbStep(CreateOp(p), out, out.seq)
    /\ UNCHANGED notDb

DbFindCall ==
    /\ \E id \in Ids : DbStep(FindOp(id), [table |-> table, res |-> DbFind(table, id)], seq)
    /\ UNCHANGED notDb

DbAllCall ==
    /\ DbStep(AllOp, [table |-> table, res |-> DbAll(table)], seq)
    /\ UNCHANGED notDb

DbUpdateCall ==
    /\ \E id \in Ids, p \in UpdateTodo : DbStep(UpdateOp(id, p), DbUpdate(table, id, p), seq)
    /\ UNCHANGED notDb

DbDeleteCall ==
    /\ \E id \in Ids : DbStep(DeleteOp(id), DbDelete(table, id), seq)
    /\ UNCHANGED notDb

----------------------------------------------------------------------------
\* The same call made on both repositories (trait TodoRepository).

BothCreate ==
    /\ Cardinality(DOMAIN store) < MaxTodos
    /\ seq <= MaxTodos
    /\ \E p \in CreateTodo :
          LET out == DbCreate(table, seq, p)
          IN  /\ MemStep(CreateOp(p), MemCreate(store, p))
              /\ DbStep(CreateOp(p), out, out.seq)
    /\ UNCHANGED notBoth

BothFind ==
    /\ \E id \in Ids :
        /\ MemStep(FindOp(id), [store |-> store, res |-> MemFind(store, id)])
        /\ DbStep(FindOp(id), [table |-> table, res |-> DbFind(table, id)], seq)
    /\ UNCHANGED notBoth

BothAll ==
    /\ \E r \in MemAll(store) :
        /\ MemStep(AllOp, [store |-> store, res |-> r])
        /\ DbStep(AllOp, [table |-> table, res |-> DbAll(table)], seq)
    /\ UNCHANGED notBoth

BothUpdate ==
    /\ \E id \in Ids, p \in UpdateTodo :
        /\ MemStep(UpdateOp(id, p), MemUpdate(store, id, p))
        /\ DbStep(UpdateOp(id, p), DbUpdate(table, id, p), seq)
    /\ UNCHANGED notBoth

BothDelete ==
    /\ \E id \in Ids :
        /\ MemStep(DeleteOp(id), MemDelete(store, id))
        /\ DbStep(DeleteOp(id), DbDelete(table, id), seq)
    /\ UNCHANGED notBoth

----------------------------------------------------------------------------
\* The HTTP handlers (src/src/handlers.rs) over the relational repository

\* axum::http::StatusCode
CREATED == 201
OK == 200
NO_CONTENT == 204
NOT_FOUND == 404

\* create_todo: (StatusCode::CREATED, Json(todo)), whatever create returned
CreateTodoStatus(res) == CREATED

\* find_todo: repository.find(id).ok_or(StatusCode::NOT_FOUND)?, then OK
FindTodoStatus(res) == IF IsOk(res) THEN OK ELSE NOT_FOUND

\* all_todo: (StatusCode::OK, Json(todos)), whatever all returned
AllTodoStatus(res) == OK

\* update_todo: repository.update(id, payload).map_err(|_| NOT_FOUND)?, then OK
UpdateTodoStatus(res) == IF IsOk(res) THEN OK ELSE NOT_FOUND

\* delete_todo: .map(|_| NO_CONTENT).unwrap_or(NOT_FOUND)
DeleteTodoStatus(res) == IF IsOk(res) THEN NO_CONTENT ELSE NOT_FOUND

\* A statement that the database could not run: find, update and delete map
\* every sqlx error but RowNotFound to Unexpected and leave the rows alone.
DbFailed(t) == [table |-> t, res |-> Unexpected]

\* POST /todos
HttpCreate ==
    /\ seq <= MaxTodos
    /\ \E p \in CreateTodo :
          LET out == DbCreate(table, seq, p)
          IN  /\ DbStep(CreateOp(p), out, out.seq)
              /\ status' = CreateTodoStatus(out.res)
    /\ UNCHANGED <<memVars, ordVars, concVars>>

\* GET /todos/:id
HttpFind ==
    /\ \E id \in Ids, failed \in BOOLEAN :
          LET out == IF failed THEN DbFailed(table)
                     ELSE [table |-> table, res |-> DbFind(table, id)]
          IN  /\ DbStep(FindOp(id), out, seq)
              /\ status' = FindTodoStatus(out.res)
    /\ UNCHANGED <<memVars, ordVars, concVars>>

\* GET /todos
HttpAll ==
    /\ LET out == [table |-> table, res |-> DbAll(table)]
       IN  /\ DbStep(AllOp, out, seq)
           /\ status' = AllTodoStatus(out.res)
    /\ UNCHANGED <<memVars, ordVars, concVars>>

\* PATCH /todos/:id
HttpUpdate ==
    /\ \E id \in Ids, p \in UpdateTodo, failed \in BOOLEAN :
          LET out == IF failed THEN DbFailed(table) ELSE DbUpdate(table, id, p)
          IN  /\ DbStep(UpdateOp(id, p), out, seq)
              /\ status' = UpdateTodoStatus(out.res)
    /\ UNCHANGED <<memVars, ordVars, concVars>>

\* DELETE /todos/:id
HttpDelete ==
    /\ \E id \in Ids, failed \in BOOLEAN :
          LET out == IF failed THEN DbFailed(table) ELSE DbDelete(table, id)
          IN  /\ DbStep(DeleteOp(id), out, seq)
              /\ status' = DeleteTodoStatus(out.res)
    /\ UNCHANGED <<memVars, ordVars, concVars>>

----------------------------------------------------------------------------
Init ==
    /\ store = <<>>
    /\ mOp = NoOp
    /\ mRes = NoRes
    /\ mPre = <<>>
    /\ mPrev = Summary(NoOp, NoRes)
    /\ deleted = {}
    /\ gone = {}
    /\ table = <<>>
    /\ seq = 1
    /\ dOp = NoOp
    /\ dRes = NoRes
    /\ dPre = <<>>
    /\ dPrev = Summary(NoOp, NoRes)
    /\ status = 0
    /\ order = <<>>
    /\ inserted = <<>>
    /\ alls = <<>>
    /\ pc = [c \in Callers |-> "idle"]
    /\ call = [c \in Callers |-> NoOp]
    /\ tmp = [c \in Callers |-> NoTodo]
    /\ ret = [c \in Callers |-> NoRes]
    /\ readers = {}
    /\ writers = {}
    /\ created = 0
    /\ live = {}
    /\ dead = {}
    /\ see = [c \in Callers |-> {}]
    /\ unsee = [c \in Callers |-> {}]
    /\ race = [c \in Callers |-> "none"]
    /\ first = NoOp
    /\ labels = <<>>
    /\ labelSeq = 1
    /\ lpc = [c \in Callers |-> "idle"]
    /\ lcall = [c \in Callers |-> NoLabelCall]
    /\ lret = [c \in Callers |-> NoLabelRes]

\* The in-memory repository, one call at a time.
Next == Create \/ Find \/ All \/ Update \/ Delete

Spec == Init /\ [][Next]_vars

\* The relational repository, one call at a time.
----------------------------------------------------------------------------
\* TodoRepositoryForDb::update under concurrent callers: its find and its
\* update statement are two statements on the pool, each atomic, with no
\* transaction around them; the methods of one statement run in one step.

\* The updates a concurrent caller may make: the text alone, or the text and
\* completed = true (new rows have completed = false).
DbUpdates ==
    {UpdateOp(id, p) : id \in 1 .. MaxTodos,
                       p \in {[text |-> Some("b"), completed |-> NoneBool],
                              [text |-> Some("a"), completed |-> Some(TRUE)]}}

\* The calls of one statement a concurrent caller may make.
DbCalls ==
    {CreateOp([text |-> "a"]), AllOp} \cup {FindOp(id) : id \in 1 .. MaxTodos}
        \cup {DeleteOp(id) : id \in 1 .. MaxTodos}

\* create, find, all or delete: one statement, and its result
DbOneStatement(c) ==
    /\ pc[c] = "idle"
    /\ \E op \in DbCalls :
          /\ op.kind = "create" => seq <= MaxTodos
          /\ LET out == CASE op.kind = "create" -> DbCreate(table, seq, op)
                          [] op.kind = "find" ->
                                 [table |-> table, seq |-> seq, res |-> DbFind(table, op.id)]
                          [] op.kind = "all" ->
                                 [table |-> table, seq |-> seq, res |-> DbAll(table)]
                          [] op.kind = "delete" ->
                                 [table |-> DbDelete(table, op.id).table, seq |-> seq,
                                  res |-> DbDelete(table, op.id).res]
             IN  /\ table' = out.table
                 /\ seq' = out.seq
                 /\ ret' = [ret EXCEPT ![c] = out.res]
          /\ call' = [call EXCEPT ![c] = op]
    /\ pc' = [pc EXCEPT ![c] = "ret"]
    /\ UNCHANGED <<tmp, race, notDbConc>>

\* let old_todo = self.find(id).await?;
DbUpdateFind(c) ==
    /\ pc[c] = "idle"
    /\ \E op \in DbUpdates :
          LET old == DbFind(table, op.id)
          IN  /\ call' = [call EXCEPT ![c] = op]
              /\ IF IsOk(old)
                 THEN /\ tmp' = [tmp EXCEPT ![c] = old.todo]
                      /\ pc' = [pc EXCEPT ![c] = "read"]
                      /\ UNCHANGED ret
                 ELSE /\ ret' = [ret EXCEPT ![c] = old]
                      /\ pc' = [pc EXCEPT ![c] = "ret"]
                      /\ UNCHANGED tmp
    /\ race' = [race EXCEPT ![c] = "none"]
    /\ UNCHANGED <<table, seq, notDbConc>>

\* sqlx::query_as("update todos set text=$1, completed=$2 where id=$3
\* returning *") ... .fetch_one(&self.pool).await?
DbUpdateExec(c) ==
    /\ pc[c] = "read"
    /\ LET id == call[c].id
           out == DbUpdateWrite(table, id,
                                [text |-> call[c].text, completed |-> call[c].completed],
                                tmp[c])
       IN  /\ table' = out.table
           /\ ret' = [ret EXCEPT ![c] = out.res]
           /\ race' = [d \in Callers |->
                          IF d = c
                          THEN (IF race[c] = "returned" /\ IsOk(out.res)
                                THEN "lost" ELSE "none")
                          ELSE IF /\ pc[d] = "read" /\ call[d].id = id
                                  /\ IsOk(out.res)
                                  /\ out.res.todo.completed # tmp[d].completed
                               THEN c
                               ELSE race[d]]
    /\ pc' = [pc EXCEPT ![c] = "ret"]
    /\ UNCHANGED <<call, tmp, seq, notDbConc>>

\* The method returns what its last statement gave.
DbReturn(c) ==
    /\ pc[c] = "ret"
    /\ pc' = [pc EXCEPT ![c] = "idle"]
    /\ call' = [call EXCEPT ![c] = NoOp]
    /\ tmp' = [tmp EXCEPT ![c] = NoTodo]
    /\ ret' = [ret EXCEPT ![c] = NoRes]
    /\ race' = [d \in Callers |->
                   IF d = c THEN "none"
                   ELSE IF race[d] = c THEN "returned" ELSE race[d]]
    /\ UNCHANGED <<table, seq, notDbConc>>

DbConcNext ==
    \E c \in Callers :
        DbOneStatement(c) \/ DbUpdateFind(c) \/ DbUpdateExec(c) \/ DbReturn(c)

DbConcSpec == Init /\ [][DbConcNext]_vars

----------------------------------------------------------------------------
DbNext == DbCreateCall \/ DbFindCall \/ DbAllCall \/ DbUpdateCall \/ DbDeleteCall

DbSpec == Init /\ [][DbNext]_vars

\* Both repositories given the same history of calls.
BothNext == BothCreate \/ BothFind \/ BothAll \/ BothUpdate \/ BothDelete

BothSpec == Init /\ [][BothNext]_vars

\* The in-memory repository with its iteration order, one call at a time.
OrdNext == OrdCreate \/ OrdFind \/ OrdAll \/ OrdUpdate \/ OrdDelete

OrdSpec == Init /\ [][OrdNext]_vars

\* The in-memory repository under concurrent callers, one step at a time.
ConcNext ==
    \E c \in Callers :
        \/ Call(c) /\ UNCHANGED visVars
        \/ Acquire(c) /\ UNCHANGED visVars
        \/ CreateRead(c) /\ UNCHANGED visVars
        \/ UpdateGet(c) /\ UNCHANGED visVars
        \/ PutTodo(c) /\ UNCHANGED visVars
        \/ FindGet(c) /\ UNCHANGED visVars
        \/ AllValues(c) /\ UNCHANGED visVars
        \/ DeleteRemove(c) /\ UNCHANGED visVars
        \/ Return(c) /\ UNCHANGED visVars

ConcSpec == Init /\ [][ConcNext]_vars

\* The same, with the history of what finds and alls must and must not see.
VisNext ==
    \E c \in Callers :
        \/ Call(c) /\ VisCall(c)
        \/ Acquire(c) /\ UNCHANGED visVars
        \/ CreateRead(c) /\ UNCHANGED visVars
        \/ UpdateGet(c) /\ UNCHANGED visVars
        \/ PutTodo(c) /\ UNCHANGED visVars
        \/ FindGet(c) /\ UNCHANGED visVars
        \/ AllValues(c) /\ UNCHANGED visVars
        \/ DeleteRemove(c) /\ UNCHANGED visVars
        \/ Return(c) /\ VisReturn(c)

VisSpec == Init /\ [][VisNext]_vars

\* The same as ConcSpec, with the history of overlapping updates.
PairNext ==
    \E c \in Callers :
        \/ Call(c) /\ PairCall(c)
        \/ Acquire(c) /\ UNCHANGED visVars
        \/ CreateRead(c) /\ UNCHANGED visVars
        \/ UpdateGet(c) /\ UNCHANGED visVars
        \/ PutTodo(c) /\ UNCHANGED visVars
        \/ FindGet(c) /\ UNCHANGED visVars
        \/ AllValues(c) /\ UNCHANGED visVars
        \/ DeleteRemove(c) /\ UNCHANGED visVars
        \/ Return(c) /\ PairReturn(c)

PairSpec == Init /\ [][PairNext]_vars

----------------------------------------------------------------------------
\* LabelRepositoryForDb under concurrent callers: create is a select and then
\* an insert, two statements on the pool with no transaction around them; all
\* and delete are one statement each.

\* What create selects: a row with that name, if there is one.
LabelNamed(t, name) == {t[id] : id \in {k \in DOMAIN t : t[k].text = name}}

\* select * from labels where name = $1 (fetch_optional); a row found is
\* Err(Unexpected(label.id))
LabelSelect(c, name) ==
    IF LabelNamed(labels, name) # {}
    THEN /\ lret' = [lret EXCEPT ![c] = LabelRes("Unexpected", NoLabel, <<>>)]
         /\ lpc' = [lpc EXCEPT ![c] = "ret"]
    ELSE /\ lpc' = [lpc EXCEPT ![c] = "insert"]
         /\ UNCHANGED lret

\* The first statement of create(name).
LabelCreateSelect(c) ==
    /\ lpc[c] = "idle"
    /\ labelSeq + Cardinality({d \in Callers : lpc[d] = "insert"}) <= MaxLabels
    /\ \E name \in LabelNames :
          /\ lcall' = [lcall EXCEPT ![c] = LabelCall("create", name, 0)]
          /\ LabelSelect(c, name)
    /\ UNCHANGED <<labels, labelSeq, notLabel>>

\* insert into labels ( name ) values ( $1 ) returning *; Ok(label)
LabelCreateInsert(c) ==
    /\ lpc[c] = "insert"
    /\ LET label == Label(labelSeq, lcall[c].name)
       IN  /\ labels' = Insert(labels, labelSeq, label)
           /\ lret' = [lret EXCEPT ![c] = LabelRes("Ok", label, <<>>)]
    /\ labelSeq' = labelSeq + 1
    /\ lpc' = [lpc EXCEPT ![c] = "ret"]
    /\ UNCHANGED <<lcall, notLabel>>

\* select * from labels order by labels.id asc
LabelAll(c) ==
    /\ lpc[c] = "idle"
    /\ lcall' = [lcall EXCEPT ![c] = LabelCall("all", "", 0)]
    /\ lret' = [lret EXCEPT ![c] = LabelRes("OkList", NoLabel, Ascending(labels))]
    /\ lpc' = [lpc EXCEPT ![c] = "ret"]
    /\ UNCHANGED <<labels, labelSeq, notLabel>>

\* delete from labels where id=$1 (execute); Ok(())
LabelDelete(c) ==
    /\ lpc[c] = "idle"
    /\ \E id \in 1 .. MaxLabels :
          /\ lcall' = [lcall EXCEPT ![c] = LabelCall("delete", "", id)]
          /\ labels' = Remove(labels, id)
    /\ lret' = [lret EXCEPT ![c] = LabelRes("OkUnit", NoLabel, <<>>)]
    /\ lpc' = [lpc EXCEPT ![c] = "ret"]
    /\ UNCHANGED <<labelSeq, notLabel>>

\* The method returns what its last statement gave.
LabelReturn(c) ==
    /\ lpc[c] = "ret"
    /\ lpc' = [lpc EXCEPT ![c] = "idle"]
    /\ lcall' = [lcall EXCEPT ![c] = NoLabelCall]
    /\ lret' = [lret EXCEPT ![c] = NoLabelRes]
    /\ UNCHANGED <<labels, labelSeq, notLabel>>

LabelNext ==
    \E c \in Callers :
        \/ LabelCreateSelect(c) \/ LabelCreateInsert(c)
        \/ LabelAll(c) \/ LabelDelete(c) \/ LabelReturn(c)

LabelSpec == Init /\ [][LabelNext]_vars

\* A waiting call is granted the lock.
Lock(c) == Acquire(c) /\ UNCHANGED visVars

\* A call that holds its guard takes its next step, up to its return.
Run(c) ==
    /\ \/ CreateRead(c) \/ UpdateGet(c) \/ PutTodo(c) \/ FindGet(c)
       \/ AllValues(c) \/ DeleteRemove(c) \/ Return(c)
    /\ UNCHANGED visVars

\* One call of each method, the ones that take an id on the first id.
FairCalls ==
    {CreateOp([text |-> "a"]), FindOp(1), AllOp, DeleteOp(1),
     UpdateOp(1, [text |-> NoneText, completed |-> Some(TRUE)])}

FairNext ==
    \E c \in Callers :
        \/ CallOf(c, FairCalls) /\ UNCHANGED visVars
        \/ Lock(c)
        \/ Run(c)

\* Concurrent callers whose threads keep running, and a fair lock: a call that
\* holds its guard takes its next step, and a call that can take the lock
\* again and again does take it.
FairSpec ==
    /\ Init /\ [][FairNext]_vars
    /\ \A c \in Callers : SF_vars(Lock(c)) /\ WF_vars(Run(c))

\* The handlers, one request at a time.
HttpNext == HttpCreate \/ HttpFind \/ HttpAll \/ HttpUpdate \/ HttpDelete

HttpSpec == Init /\ [][HttpNext]_vars

----------------------------------------------------------------------------
\* Properties of TodoRepositoryForMemory (checked under Spec)

\* C1: create(payload) returns a Todo with text = payload.text and
\* completed = false, and the find(returned.id) made right after it returns a
\* record equal to the one create returned.
C1_CreateThenFind ==
    /\ [](mOp.kind = "create" =>
            /\ mRes.kind = "Ok"
            /\ mRes.todo.text = mOp.text.val
            /\ mRes.todo.completed = FALSE)
    /\ [][(mOp.kind = "create" /\ mOp'.kind = "find" /\ mOp'.id = mRes.id)
            => mRes' = mRes]_vars

\* C1 happens: a find of the id the create before it returned, on a map that
\* held a record already when the create ran.
C1_Witness ==
    /\ mPrev.kind = "create"
    /\ mOp = FindOp(mPrev.id)
    /\ mRes.kind = "Ok"
    /\ Cardinality(DOMAIN store) >= 2

\* C2: the id a create returns is never an id that an earlier successful
\* delete removed.
C2_NoIdReuse ==
    mOp.kind = "create" => mRes.id \notin deleted

\* C3: create assigns id = (number of records stored) + 1; when that id is
\* stored already the create replaces its record and the number of records
\* does not grow; so the create that follows create, create, delete(1) returns
\* id 2 over the stored record 2 and leaves one record.
C3_CreateIdFromCount ==
    mOp.kind = "create" =>
        /\ mRes.id = Cardinality(DOMAIN mPre) + 1
        /\ store[mRes.id] = mRes.todo
        /\ mRes.id \in DOMAIN mPre => DOMAIN store = DOMAIN mPre
        /\ (mPrev = [kind |-> "delete", id |-> 1] /\ DOMAIN mPre = {2}) =>
               /\ mRes.id = 2
               /\ DOMAIN store = {2}

\* C3 happens: after delete(1) left only record 2, a create returned id 2,
\* replaced the record stored under 2 by another one and left one record.
C3_Witness ==
    /\ mOp.kind = "create"
    /\ mPrev = [kind |-> "delete", id |-> 1]
    /\ DOMAIN mPre = {2}
    /\ mRes.id = 2
    /\ Cardinality(DOMAIN store) = 1
    /\ store[2] # mPre[2]

\* C4: find, update and delete of an id that is no key of the map fail with
\* NotFound(id) and leave the map as it was.
C4_MemNotFound ==
    (mOp.kind \in {"find", "update", "delete"} /\ mOp.id \notin DOMAIN mPre) =>
        /\ mRes = NotFound(mOp.id)
        /\ store = mPre

\* C4 happens: an update carrying both fields, of an id that is no key of a
\* non-empty map, failed.
C4_Witness ==
    /\ mOp.kind = "update"
    /\ mOp.text.some /\ mOp.completed.some
    /\ mOp.id \notin DOMAIN mPre
    /\ mPre # <<>>
    /\ mRes.kind = "NotFound"

\* C6: update(i, p) of a stored record r stores and returns
\* {id: i, text: p.text if present else r.text,
\*  completed: p.completed if present else r.completed}.
C6_MemUpdateMerge ==
    (mOp.kind = "update" /\ mOp.id \in DOMAIN mPre) =>
        LET r == mPre[mOp.id]
            merged == Todo(mOp.id,
                           IF mOp.text.some THEN mOp.text.val ELSE r.text,
                           IF mOp.completed.some THEN mOp.completed.val ELSE r.completed)
        IN  /\ mRes = Ok(merged)
            /\ store = [mPre EXCEPT ![mOp.id] = merged]
            /\ (~mOp.text.some /\ ~mOp.completed.some) => store = mPre

\* C6 happens: an update with only text on a completed record kept
\* completed = true and changed the text.
C6_Witness ==
    /\ mOp.kind = "update"
    /\ mOp.id \in DOMAIN mPre
    /\ mOp.text.some /\ ~mOp.completed.some
    /\ mPre[mOp.id].completed
    /\ mPre[mOp.id].text # mOp.text.val
    /\ mRes.kind = "Ok" /\ mRes.todo.completed
    /\ store[mOp.id].text = mOp.text.val

\* C9: after delete(id) succeeded and while no create followed it, find(id)
\* fails with NotFound(id) and all() holds no record with that id.
C9_DeleteThenFind ==
    /\ (mOp.kind = "find" /\ mOp.id \in gone) => mRes = NotFound(mOp.id)
    /\ mOp.kind = "all" =>
           \A i \in DOMAIN mRes.list : mRes.list[i].id \notin gone

\* C9 happens: a find of the id the delete right before it removed, with
\* another record still stored.
C9_Witness ==
    /\ mPrev.kind = "delete"
    /\ mOp = FindOp(mPrev.id)
    /\ mOp.id \in gone
    /\ mRes.kind = "NotFound"
    /\ store # <<>>

\* C10: delete(id) of a stored id succeeds and removes it; the delete(id)
\* made right after it fails with NotFound(id) and leaves the map as the
\* first one left it.
C10_DeleteTwice ==
    /\ (mOp.kind = "delete" /\ mOp.id \in DOMAIN mPre) =>
           mRes = OkUnit /\ store = Remove(mPre, mOp.id)
    /\ (mPrev.kind = "delete" /\ mOp = DeleteOp(mPrev.id)) =>
           mRes = NotFound(mOp.id) /\ store = mPre

\* C10 happens: the second of two deletes of the same id in a row.
C10_Witness ==
    /\ mPrev.kind = "delete"
    /\ mOp = DeleteOp(mPrev.id)
    /\ mRes.kind = "NotFound"
    /\ store # <<>>

\* C12: a new id enters the map only through create; the text or completed
\* of a stored record changes only through an update of that id; an id leaves
\* the map only through a delete of that id; find and all never change the map.
C12_Lifecycle ==
    /\ \A k \in DOMAIN store \ DOMAIN mPre : mOp.kind = "create"
    /\ \A k \in DOMAIN store \cap DOMAIN mPre :
           store[k] # mPre[k] => (mOp.kind = "update" /\ mOp.id = k)
    /\ \A k \in DOMAIN mPre \ DOMAIN store : mOp = DeleteOp(k)
    /\ mOp.kind \in {"find", "all"} => store = mPre

\* C20: every key k of the map holds a record whose id is k, and every stored
\* id is at least 1; update keeps the keys of the map and the id of every
\* record.
C20_KeyIsId ==
    /\ \A k \in DOMAIN store : store[k].id = k /\ k >= 1
    /\ mOp.kind = "update" =>
           /\ DOMAIN store = DOMAIN mPre
           /\ \A k \in DOMAIN store : store[k].id = mPre[k].id

\* C20 happens: an update rewrote the text and completed of one of two stored
\* records.
C20_Witness ==
    /\ mOp.kind = "update"
    /\ mRes.kind = "Ok"
    /\ Cardinality(DOMAIN store) = 2
    /\ store[mOp.id].text # mPre[mOp.id].text
    /\ store[mOp.id].completed # mPre[mOp.id].completed
    /\ store[mOp.id].id = mOp.id

----------------------------------------------------------------------------
\* Properties of the order of all() (checked under OrdSpec)

\* C17: all() returns the stored records in insertion order, the order in
\* which their creates completed, and two all() calls with no write in
\* between return the same sequence.
C17_InsertionOrder ==
    mOp.kind = "all" =>
        /\ mRes.list = InOrder(store, inserted)
        /\ Len(alls) = 2 => alls[1] = alls[2]

----------------------------------------------------------------------------
\* Properties of TodoRepositoryForDb (checked under DbSpec)

\* C5: find, update and delete of an id that has no row fail with
\* NotFound(id); a delete that affects no row is NotFound(id), not success.
C5_DbNotFound ==
    (dOp.kind \in {"find", "update", "delete"} /\ dOp.id \notin DOMAIN dPre) =>
        dRes = NotFound(dOp.id)

\* C7: update(id, payload) of an existing row succeeds and a field the
\* payload omits keeps its stored value.
C7_DbUpdateMerge ==
    (dOp.kind = "update" /\ dOp.id \in DOMAIN dPre) =>
        LET r == dPre[dOp.id]
            merged == Todo(dOp.id,
                           IF dOp.text.some THEN dOp.text.val ELSE r.text,
                           IF dOp.completed.some THEN dOp.completed.val ELSE r.completed)
        IN  /\ dRes = Ok(merged)
            /\ table = [dPre EXCEPT ![dOp.id] = merged]

\* C18: all() returns every row, in strictly descending id order; so the
\* all() made right after a create has the created record as its first
\* element.
C18_DbAllDescending ==
    dOp.kind = "all" =>
        /\ dRes.kind = "OkList"
        /\ Len(dRes.list) = Cardinality(DOMAIN dPre)
        /\ Records(dRes.list) = {dPre[k] : k \in DOMAIN dPre}
        /\ \A i, j \in DOMAIN dRes.list : i < j => dRes.list[i].id > dRes.list[j].id
        /\ dPrev.kind = "create" =>
               /\ dRes.list # <<>>
               /\ dRes.list[1].id = dPrev.id
               /\ dRes.list[1] = dPre[dPrev.id]

\* C18 happens: an all() right after the create of a second row lists that
\* row first and the older one after it.
C18_Witness ==
    /\ dOp.kind = "all"
    /\ dPrev.kind = "create"
    /\ Len(dRes.list) = 2
    /\ dRes.list[1].id = dPrev.id
    /\ dRes.list[2].id < dPrev.id

----------------------------------------------------------------------------
\* Properties of the HTTP handlers (checked under HttpSpec)

\* C19: a successful create answers 201, find/all/update answer 200 and
\* delete answers 204; a find, update or delete that fails answers 404 when
\* the failure is NotFound and a 5xx status when it is Unexpected.
C19_HandlerStatus ==
    /\ (dOp.kind = "create" /\ IsOk(dRes)) => status = 201
    /\ (dOp.kind \in {"find", "all", "update"} /\ IsOk(dRes)) => status = 200
    /\ (dOp.kind = "delete" /\ IsOk(dRes)) => status = 204
    /\ dOp.kind \in {"find", "update", "delete"} =>
           /\ dRes.kind = "NotFound" => status = 404
           /\ dRes.kind = "Unexpected" => status \in 500 .. 599

----------------------------------------------------------------------------
\* The two repositories against each other (checked under BothSpec)

\* The outcome of a call, order of a returned list aside.
Outcome(res) == [kind |-> res.kind, id |-> res.id, todo |-> res.todo,
                 records |-> Records(res.list)]

\* C8: given the same history of calls, each call returns the same outcome in
\* both repositories (the same Todo, or the same error), and all() returns
\* the same set of records.
C8_BackendsAgree ==
    Outcome(mRes) = Outcome(dRes)

----------------------------------------------------------------------------
\* Properties of the in-memory repository under concurrent callers (checked
\* under ConcSpec)

\* The callers that hold a guard of the store lock.
Holders == {c \in Callers : pc[c] \in {"held", "mid", "ret"}}

\* C13: at most one writer holds the lock, and never together with a reader;
\* the holders are exactly the callers between their lock() and their return,
\* writers for create/update/delete and readers for find/all; and a writer
\* that has read the map and not yet written still holds the lock over the
\* map it read (what it is about to insert is what the map gives now).
C13_ReadersOrOneWriter ==
    /\ Cardinality(writers) <= 1
    /\ writers # {} => readers = {}
    /\ readers \cup writers = Holders
    /\ \A c \in writers : IsWrite(call[c])
    /\ \A c \in readers : call[c].kind \in {"find", "all"}
    /\ \A c \in Callers :
           pc[c] = "mid" =>
               /\ c \in writers
               /\ call[c].kind = "create" => tmp[c].id = NextId(store)
               /\ call[c].kind = "update" =>
                      /\ call[c].id \in DOMAIN store
                      /\ tmp[c] = Merged(store[call[c].id], call[c].id,
                                          [text |-> call[c].text,
                                           completed |-> call[c].completed])

\* A writer is between its read and its write of the map while the other
\* caller, a writer too, waits for the lock.
C13_Witness ==
    \E c, d \in Callers :
        /\ c \in writers /\ pc[c] = "mid"
        /\ pc[d] = "wait" /\ IsWrite(call[d])

\* C11: while no delete has been called, an all() returns as many records as
\* creates have returned, and their ids are pairwise distinct and are exactly
\* 1 .. that number.
C11_AllAfterCreates ==
    \A c \in Callers :
        (created >= 0 /\ call[c].kind = "all" /\ pc[c] = "ret") =>
            /\ ret[c].kind = "OkList"
            /\ Len(ret[c].list) = created
            /\ \A i, j \in DOMAIN ret[c].list :
                   i # j => ret[c].list[i].id # ret[c].list[j].id
            /\ IdsOf(ret[c].list) = 1 .. created

\* An all() returns every record after as many creates as the store may hold
\* have returned, while the other caller is in a find or an update.
C11_Witness ==
    \E c, d \in Callers :
        /\ call[c].kind = "all" /\ pc[c] = "ret"
        /\ created = MaxTodos
        /\ Len(ret[c].list) = MaxTodos
        /\ call[d].kind \in {"find", "update"} /\ pc[d] # "idle"

----------------------------------------------------------------------------
\* Termination of the in-memory repository's methods (checked under FairSpec)

\* A step of a call that has started.
Progress == \E c \in Callers : Lock(c) \/ Run(c)

----------------------------------------------------------------------------
\* What concurrent finds and alls see (checked under VisSpec)

\* The ids a returned find or all shows.
Seen(c) ==
    IF call[c].kind = "all" THEN IdsOf(ret[c].list)
    ELSE IF IsOk(ret[c]) THEN {ret[c].todo.id} ELSE {}

\* C14: a find(id) or all() that started after a create returned id, with no
\* delete(id) started, sees the id; one that started after delete(id)
\* returned, with no create started since, does not see it.
C14_Visibility ==
    \A c \in Callers :
        (pc[c] = "ret" /\ call[c].kind \in {"find", "all"}) =>
            LET asked == IF call[c].kind = "find" THEN {call[c].id} ELSE 1 .. MaxTodos
            IN  /\ (see[c] \cap asked) \subseteq Seen(c)
                /\ (unsee[c] \cap asked) \cap Seen(c) = {}

----------------------------------------------------------------------------
\* Concurrent updates of the relational repository (checked under DbConcSpec)

\* C15: the update statement stores, and update returns, the text of the
\* payload with the payload's completed or else the completed of the row that
\* update's find read earlier, whatever the row holds by then: another
\* update's completed, written and returned in between, is overwritten.
C15_LostUpdate ==
    [][\A c \in Callers :
           (pc[c] = "read" /\ pc'[c] = "ret" /\ IsOk(ret'[c])) =>
               LET todo == Todo(call[c].id, call[c].text.val,
                                UnwrapOr(call[c].completed, tmp[c].completed))
               IN  /\ table'[call[c].id] = todo
                   /\ ret'[c] = Ok(todo)]_vars

\* Update A, whose payload has no completed, has read the row; update B of
\* the same id then stored another completed and returned Ok; A's statement
\* has now stored the completed A read, and A is about to return Ok.
C15_Witness ==
    \E c \in Callers :
        /\ pc[c] = "ret" /\ race[c] = "lost"
        /\ ~call[c].completed.some
        /\ IsOk(ret[c])
        /\ call[c].id \in DOMAIN table
        /\ table[call[c].id] = ret[c].todo
        /\ table[call[c].id].completed = tmp[c].completed

----------------------------------------------------------------------------
\* Overlapping updates of the in-memory repository (checked under PairSpec)

\* One payload carries only a text and the other only a completed.
Complementary(p, q) ==
    /\ p.text.some /\ ~p.completed.some
    /\ ~q.text.some /\ q.completed.some

\* C21: when an update of a stored id has returned Ok while another caller's
\* update of the same id was in progress, one carrying only a text and the
\* other only a completed, the second update succeeds too, and the record it
\* stores and returns has the text of the one and the completed of the
\* other, whichever of the two went first.
C21_BothUpdatesApply ==
    \A c \in Callers :
        (pc[c] = "ret" /\ call[c].kind = "update" /\ first.kind = "update"
            /\ first.id = call[c].id
            /\ (Complementary(first, call[c]) \/ Complementary(call[c], first))) =>
            LET t == IF first.text.some THEN first ELSE call[c]
                b == IF first.text.some THEN call[c] ELSE first
                todo == Todo(call[c].id, t.text.val, b.completed.val)
            IN  /\ ret[c] = Ok(todo)
                /\ call[c].id \in DOMAIN store
                /\ store[call[c].id] = todo

\* The update of completed alone has returned, and the update of the text
\* alone that waited for it has stored a record that differs from a fresh
\* one in both fields.
C21_Witness ==
    \E c \in Callers :
        /\ pc[c] = "ret" /\ call[c].kind = "update" /\ IsOk(ret[c])
        /\ first.kind = "update" /\ first.id = call[c].id
        /\ Complementary(call[c], first)
        /\ ret[c].todo.text # "a" /\ ret[c].todo.completed

\* C22: an update whose row is gone when its statement runs, removed by a
\* delete after the update's find read it, fails with NotFound(id) and leaves
\* the rows as they are; and from then until it returns the table has no row
\* with that id.
C22_UpdateAfterDelete ==
    /\ [][\A c \in Callers :
             (pc[c] = "read" /\ pc'[c] = "ret" /\ call[c].id \notin DOMAIN table) =>
                 /\ ret'[c] = NotFound(call[c].id)
                 /\ table' = table]_vars
    /\ [](\A c \in Callers :
             (pc[c] = "ret" /\ call[c].kind = "update" /\ tmp[c].id = call[c].id
                 /\ ret[c].kind = "NotFound") =>
                 call[c].id \notin DOMAIN table)

\* An update has read its row, the other caller's delete of that id has
\* removed it, and the update's statement has failed with NotFound.
C22_Witness ==
    \E c, d \in Callers :
        /\ pc[c] = "ret" /\ call[c].kind = "update" /\ tmp[c].id = call[c].id
        /\ ret[c] = NotFound(call[c].id)
        /\ pc[d] = "ret" /\ call[d] = DeleteOp(call[c].id) /\ IsOk(ret[d])
        /\ call[c].id \notin DOMAIN table

----------------------------------------------------------------------------
\* Properties of the label repository (checked under LabelSpec)

\* C23: the labels table never holds two rows with the same name, and a
\* create that is about to return Ok has inserted the only row of its name.
C23_UniqueNames ==
    /\ \A i, j \in DOMAIN labels : labels[i].text = labels[j].text => i = j
    /\ \A c \in Callers :
           (lpc[c] = "ret" /\ lcall[c].kind = "create" /\ lret[c].kind = "Ok") =>
               LabelNamed(labels, lcall[c].name) \subseteq {lret[c].label}
====
